---- MODULE Spec2Model ----
(***************************************************************************)
(* Contact-list cleanup: fetch the contacts of one label page by page,     *)
(* classify each with the handler chain of filters.py, export the keep and *)
(* delete lists, then delete the delete list through the remote API.       *)
(*                                                                         *)
(* The repository holds the pipeline twice: cleanup.py carries its own     *)
(* fetch_contacts / filter_contacts / save_to_files / delete_contacts, and *)
(* google_api.py + utils.py carry the same functions with the per-minute   *)
(* rate limiter around the two remote calls and other defaults.  The       *)
(* variable `module` says which set of functions the run uses; the order   *)
(* of the steps is that of cleanup.py main() / execute().                  *)
(*                                                                         *)
(* Time is counted in ticks of 1/3 second, so that the limiter's           *)
(* min_interval = 60/90 s is 2 ticks.  Clocks are kept relative and are    *)
(* capped at min_interval (the code only compares them with it).           *)
(***************************************************************************)
EXTENDS Integers, Sequences, FiniteSets, TLC

VARIABLES
    module,             \* "cleanup" | "google_api": which implementation runs
    label,              \* --label argument, None when absent
    pages,              \* the server's connections, as the chain of pages it serves
    pc,                 \* position of main()/execute()
    next_handler,       \* AbstractHandler._next_handler of the three handler objects
    label_id,           \* execute: label_id
    page_token,         \* fetch_contacts: page_token (0 is None)
    retries,            \* fetch_contacts / delete_contacts: retries
    backoff_time,       \* fetch_contacts / delete_contacts: backoff_time (seconds)
    acc,                \* fetch_contacts: contacts (the accumulator)
    contacts,           \* execute: contacts = [none, items] (none: the value is None)
    skipped_contacts,   \* execute: skipped_contacts
    to_delete_contacts, \* execute: to_delete_contacts
    index,              \* delete_contacts: position in the for loop (1-based)
    files,              \* the export files: [names, skipped, to_delete]
    elapsed,            \* per wrapped call: perf_counter() - last_time_called[0], capped
    sinceStart,         \* observer: per wrapped call, <<ticks since its previous call began>>
    startGap,           \* observer: per wrapped call, <<gap seen when its latest call began>>
    listCalls,          \* observer: contactGroups().list calls issued
    opCalls,            \* observer: calls issued so far for the current logical operation
    fetchCalled,        \* observer: some page-fetch call was issued in the run
    deleteCalls,        \* observer: resourceName of every delete call issued, in order
    deleteFailed,       \* observer: some delete call raised HttpError
    waits,              \* observer: time.sleep(backoff_time) values of the current operation
    opOutcome           \* observer: how the latest logical operation ended

vars == <<module, label, pages, pc, next_handler, label_id, page_token, retries,
          backoff_time, acc, contacts, skipped_contacts, to_delete_contacts, index,
          files, elapsed, sinceStart, startGap, listCalls, opCalls, fetchCalled,
          deleteCalls, deleteFailed, waits, opOutcome>>

None == "None"

(***************************************************************************)
(* Bounds of the model                                                     *)
(***************************************************************************)
MaxPages == 2       \* longest page chain the server serves
MaxCallTicks == 1   \* longest duration of one remote call, in ticks

(***************************************************************************)
(* The remote service                                                      *)
(***************************************************************************)
\* contactGroups().list(): the groups of the account
ContactGroups == << [name |-> "Spam", resourceName |-> "g1"],
                    [name |-> "Work", resourceName |-> "g2"] >>

Labels == {None, "Spam", "Nope"}

\* A connection without its resourceName: phoneNumbers is one flag per phone
\* entry ("contactGroupMembership" in phone), memberships is the
\* contactGroupResourceName of each membership.
Person(phones, groups) == [phoneNumbers |-> phones, memberships |-> groups]

PageChoices ==
    { << >>,
      << Person(<<TRUE>>, <<"g1", "g2">>), Person(<<FALSE>>, <<"g1">>),
         Person(<< >>, <<"g2">>) >>,
      << Person(<<FALSE, FALSE>>, <<"g1">>) >>,
      << Person(<<TRUE>>, <<"g1">>), Person(<<FALSE>>, <<"g2", "g1">>) >> }

\* resourceName of the s-th connection of page p
ResourceName(p, s) == p * 10 + s

Connections(choice) ==
    [p \in 1..Len(choice) |->
        [s \in 1..Len(choice[p]) |->
            [resourceName |-> ResourceName(p, s),
             phoneNumbers |-> choice[p][s].phoneNumbers,
             memberships  |-> choice[p][s].memberships]]]

PageChains == UNION { [1..n -> PageChoices] : n \in 1..MaxPages }

\* people().connections().list(pageToken=page_token).execute() when it succeeds
ConnectionsList(token) ==
    LET p == IF token = 0 THEN 1 ELSE token
    IN [connections   |-> pages[p],
        nextPageToken |-> IF p < Len(pages) THEN p + 1 ELSE 0]

Statuses == {200, 429, 503, 404}


TransientStatuses == {503, 429}

(***************************************************************************)
(* filters.py: the handler chain                                           *)
(***************************************************************************)
Handlers == {"phone_number_with_label_handler", "multiple_phone_numbers_handler",
             "multiple_labels_handler"}

\* AbstractHandler.set_next: stores the link in self and returns the handler
\* it was given, not self
set_next(links, self, handler) ==
    [links |-> [links EXCEPT ![self] = handler], ret |-> handler]

\* mutant: the chain is built on the first call only, later calls hand out its head
record_filters_cached(links) ==
    IF links["phone_number_with_label_handler"] = None
    THEN LET first == set_next(links, "phone_number_with_label_handler",
                               "multiple_phone_numbers_handler")
         IN set_next(first.links, first.ret, "multiple_labels_handler")
    ELSE [links |-> links, ret |-> "phone_number_with_label_handler"]

\* record_filters(): re-links the three module-level handler objects and
\* returns what the last set_next returns
record_filters(links) ==
    LET first == set_next(links, "phone_number_with_label_handler",
                          "multiple_phone_numbers_handler")
    IN set_next(first.links, first.ret, "multiple_labels_handler")

RECURSIVE handle(_, _, _)

\* AbstractHandler.handle: delegate to the next handler when there is one,
\* else fall off the end (None, written << >>)
AbstractHandler_handle(links, self, contact) ==
    IF links[self] # None THEN handle(links, links[self], contact) ELSE << >>

PhoneNumberWithLabelHandler_handle(links, self, contact) ==
    IF \E i \in DOMAIN contact.phoneNumbers : contact.phoneNumbers[i]
    THEN <<"Skipped", "Phone number has a label">>
    ELSE AbstractHandler_handle(links, self, contact)

MultiplePhoneNumbersHandler_handle(links, self, contact) ==
    IF Len(contact.phoneNumbers) > 1
    THEN <<"Skipped", "More than one phone number">>
    ELSE AbstractHandler_handle(links, self, contact)

MultipleLabelsHandler_handle(links, self, contact) ==
    IF Len(contact.memberships) > 1
    THEN <<"Skipped", "More than one label">>
    ELSE AbstractHandler_handle(links, self, contact)

\* handler.handle(contact), dispatched on the class of the handler object
handle(links, self, contact) ==
    CASE self = "phone_number_with_label_handler" ->
            PhoneNumberWithLabelHandler_handle(links, self, contact)
      [] self = "multiple_phone_numbers_handler" ->
            MultiplePhoneNumbersHandler_handle(links, self, contact)
      [] self = "multiple_labels_handler" ->
            MultipleLabelsHandler_handle(links, self, contact)

\* record_filters().handle(contact): [links after the call, result]
classify(links, contact) ==
    LET chain == record_filters(links)
    IN [links |-> chain.links, result |-> handle(chain.links, chain.ret, contact)]

(***************************************************************************)
(* filter_contacts and save_to_files                                       *)
(***************************************************************************)
\* mutant: filter_contacts takes None for an empty list
filter_contacts_never_raises(fetched) == FALSE

\* len(contacts) on entry raises TypeError when contacts is None
filter_contacts_raises(fetched) == fetched.none

\* mutant: the else is lost, every contact also lands in the deletion list
filter_contacts_step_no_else(result, contact, skipped, to_delete) ==
    [skipped |-> IF result # << >> THEN Append(skipped, contact) ELSE skipped,
     to_delete |-> Append(to_delete, contact)]

\* the body of the for loop: a truthy result keeps the contact, else it is
\* added to the deletion list
filter_contacts_step(result, contact, skipped, to_delete) ==
    IF result # << >>
    THEN [skipped |-> Append(skipped, contact), to_delete |-> to_delete]
    ELSE [skipped |-> skipped, to_delete |-> Append(to_delete, contact)]

RECURSIVE filter_contacts_loop(_, _, _, _)
filter_contacts_loop(links, rest, skipped, to_delete) ==
    IF rest = << >>
    THEN [links |-> links, skipped |-> skipped, to_delete |-> to_delete]
    ELSE LET c == classify(links, Head(rest))
             lists == filter_contacts_step(c.result, Head(rest), skipped, to_delete)
         IN filter_contacts_loop(c.links, Tail(rest), lists.skipped, lists.to_delete)

filter_contacts(links, items) == filter_contacts_loop(links, items, << >>, << >>)

\* the loop over skipped_contacts in save_to_files: one row per contact with
\* the reason record_filters().handle(contact)[1]; subscripting None raises.
\* Rows are <<resourceName, reason>> (the name and phone columns are not modelled).
RECURSIVE save_skipped_rows(_, _, _)
save_skipped_rows(links, rest, rows) ==
    IF rest = << >>
    THEN [links |-> links, rows |-> rows, raised |-> FALSE]
    ELSE LET c == classify(links, Head(rest))
         IN IF c.result = << >>
            THEN [links |-> c.links, rows |-> rows, raised |-> TRUE]
            ELSE save_skipped_rows(c.links, Tail(rest),
                                   Append(rows, <<Head(rest).resourceName, c.result[2]>>))

save_to_delete_rows(to_delete) ==
    [i \in 1..Len(to_delete) |-> <<to_delete[i].resourceName, "To delete">>]

(***************************************************************************)
(* fetch_contacts / delete_contacts helpers                                *)
(***************************************************************************)
\* get_contact_group_resource_name / get_label_id
get_label_id(label_name) ==
    IF \E i \in DOMAIN ContactGroups : ContactGroups[i].name = label_name
    THEN ContactGroups[CHOOSE i \in DOMAIN ContactGroups :
                           /\ ContactGroups[i].name = label_name
                           /\ \A j \in 1..(i - 1) : ContactGroups[j].name # label_name
                      ].resourceName
    ELSE None

\* defaults of fetch_contacts in the module the run uses
fetch_initial_backoff == IF module = "cleanup" THEN 1 ELSE 2
fetch_max_retries == IF module = "cleanup" THEN 5 ELSE 6

\* defaults of delete_contacts (the same in both modules)
delete_initial_backoff == 2
delete_max_retries == 6

\* mutant: the membership test is lost, every connection of the page is retained
label_filtered_connections_all(connections, label_resource_name) == connections

\* the list comprehension label_filtered_connections
label_filtered_connections(connections, label_resource_name) ==
    SelectSeq(connections,
              LAMBDA c : \E i \in DOMAIN c.memberships :
                            c.memberships[i] = label_resource_name)

\* mutant: the new page is put in front of the accumulated list
accumulate_in_front(list, filtered) == filtered \o list

\* contacts += label_filtered_connections
accumulate(list, filtered) == list \o filtered

\* mutant: execute() hands the keep list to delete_contacts
delete_argument_keep(skipped, to_delete) == skipped

\* the argument execute() hands to delete_contacts
delete_argument(skipped, to_delete) == to_delete

\* mutant: a permanent failure leaves the whole batch (return for break)
next_after_return(i, list) == Len(list) + 1

\* mutant: a permanent failure goes round the while loop again (continue for break)
next_after_continue(i, list) == i

\* delete_contacts: break leaves the while loop, the for loop takes the next contact
next_after_break(i, list) == i + 1

\* mutant: the for loop walks the list from its end
current_contact_reversed(list, i) == list[Len(list) - i + 1]

\* delete_contacts: the contact of the i-th pass of the for loop
current_contact(list, i) == list[i]

\* mutant: the backoff is carried over to the next record
backoff_kept(backoff, initial) == backoff

\* delete_contacts: backoff_time = initial_backoff after each record
backoff_reset(backoff, initial) == initial

\* mutant: every transient failure is retried
may_retry_always(status, tried, max_retries) == status \in TransientStatuses

\* the test of the except branch: a transient status with retries left
may_retry(status, tried, max_retries) ==
    status \in TransientStatuses /\ tried < max_retries

\* mutant: a failed fetch returns what it has accumulated
fetch_abort_partial(accumulated) == [none |-> FALSE, items |-> accumulated]

\* fetch_contacts: return None in the except branch
fetch_abort(accumulated) == [none |-> TRUE, items |-> << >>]

(***************************************************************************)
(* utils.py: rate_limited_calls_per_min                                    *)
(***************************************************************************)
WrappedCalls == {"get_contacts_api_call", "delete_contact_api_call"}

Ticks(seconds) == seconds * 3

max_per_minute == 90

min_interval == Ticks(60) \div max_per_minute

Cap(t) == IF t > min_interval THEN min_interval ELSE t

Adv(clock, k) == IF clock = << >> THEN << >> ELSE <<Cap(clock[1] + k)>>

\* left_to_wait, 0 when the code does not sleep
left_to_wait(f) ==
    IF min_interval - elapsed[f] > 0 THEN min_interval - elapsed[f] ELSE 0

\* perf_counter() - last_time_called[0] of f right after its call of
\* duration d: last_time_called is set only when func returns
elapsed_after_call(f, d, raised) ==
    IF raised THEN Cap(elapsed[f] + left_to_wait(f) + d) ELSE 0


(***************************************************************************)
(* The run: main() and execute()                                           *)
(***************************************************************************)
Init ==
    /\ module \in {"cleanup", "google_api"}
    /\ label \in Labels
    /\ \E choice \in PageChains : pages = Connections(choice)
    /\ pc = "init"
    /\ next_handler = [h \in Handlers |-> None]
    /\ label_id = None
    /\ page_token = 0
    /\ retries = 0
    /\ backoff_time = 0
    /\ acc = << >>
    /\ contacts = [none |-> FALSE, items |-> << >>]
    /\ skipped_contacts = << >>
    /\ to_delete_contacts = << >>
    /\ index = 0
    /\ files = [names |-> {}, skipped |-> << >>, to_delete |-> << >>]
    /\ elapsed = [f \in WrappedCalls |-> 0]
    /\ sinceStart = [f \in WrappedCalls |-> << >>]
    /\ startGap = [f \in WrappedCalls |-> << >>]
    /\ listCalls = 0
    /\ opCalls = 0
    /\ fetchCalled = FALSE
    /\ deleteCalls = << >>
    /\ deleteFailed = FALSE
    /\ waits = << >>
    /\ opOutcome = "none"

program == <<module, label, pages>>
locals_fetch == <<page_token, acc>>
retry_state == <<retries, backoff_time>>
lists == <<contacts, skipped_contacts, to_delete_contacts>>
clocks == <<elapsed, sinceStart, startGap>>
call_log == <<listCalls, fetchCalled, deleteCalls, deleteFailed>>
op_log == <<opCalls, waits, opOutcome>>

\* The clocks after one call of the wrapped function f that lasted d ticks,
\* raised or not, and was followed by time.sleep(sleep seconds) in the caller.
\* cleanup.py calls the API unwrapped: there is no limiter state to move.
WrappedCall(f, d, raised, sleep) ==
    IF module = "cleanup"
    THEN UNCHANGED clocks
    ELSE LET waited == left_to_wait(f)
             passed == waited + d + Ticks(sleep)
         IN /\ startGap' = [startGap EXCEPT ![f] = Adv(sinceStart[f], waited)]
            /\ sinceStart' = [g \in WrappedCalls |->
                                IF g = f THEN <<Cap(d + Ticks(sleep))>>
                                ELSE Adv(sinceStart[g], passed)]
            /\ elapsed' = [g \in WrappedCalls |->
                                IF g = f
                                THEN Cap(elapsed_after_call(f, d, raised) + Ticks(sleep))
                                ELSE Cap(elapsed[g] + passed)]

\* the observers of the current logical operation, after one more call of it
OpLog(outcome, slept) ==
    LET fresh == opOutcome # "running"
        base == IF fresh THEN << >> ELSE waits
    IN /\ opCalls' = (IF fresh THEN 0 ELSE opCalls) + 1
       /\ waits' = IF slept > 0 THEN Append(base, slept) ELSE base
       /\ opOutcome' = outcome

\* main(): label = init()
main_init ==
    /\ pc = "init"
    /\ pc' = "auth"
    /\ UNCHANGED <<program, next_handler, label_id, locals_fetch, retry_state, lists,
                   index, files, clocks, call_log, op_log>>

\* main(): service = auth()
main_auth ==
    /\ pc = "auth"
    /\ pc' = "get_label_id"
    /\ UNCHANGED <<program, next_handler, label_id, locals_fetch, retry_state, lists,
                   index, files, clocks, call_log, op_log>>

\* execute(): label_id = get_label_id(service, label), one unretried remote
\* call whose HttpError nobody catches; then the entry of fetch_contacts
execute_get_label_id(status) ==
    /\ pc = "get_label_id"
    /\ listCalls' = listCalls + 1
    /\ IF status = 200
       THEN /\ label_id' = get_label_id(label)
            /\ pc' = "fetch_contacts"
            /\ acc' = << >>
            /\ page_token' = 0
            /\ retries' = 0
            /\ backoff_time' = fetch_initial_backoff
       ELSE /\ pc' = "crashed"
            /\ UNCHANGED <<label_id, locals_fetch, retry_state>>
    /\ UNCHANGED <<program, next_handler, lists, index, files, clocks,
                   fetchCalled, deleteCalls, deleteFailed, op_log>>

\* fetch_contacts: one pass of the while loop, i.e. one call of the page fetch
\* and what the try / except does with its outcome
fetch_contacts_call(status, d) ==
    /\ pc = "fetch_contacts"
    /\ fetchCalled' = TRUE
    /\ IF status = 200
       THEN LET result == ConnectionsList(page_token)
                filtered == label_filtered_connections(result.connections, label_id)
            IN /\ acc' = accumulate(acc, filtered)
               /\ page_token' = result.nextPageToken
               /\ IF result.nextPageToken = 0
                  THEN /\ pc' = "filter_contacts"
                       /\ contacts' = [none |-> FALSE, items |-> accumulate(acc, filtered)]
                       /\ UNCHANGED backoff_time
                  ELSE /\ backoff_time' = fetch_initial_backoff
                       /\ UNCHANGED <<pc, contacts>>
               /\ UNCHANGED retries
               /\ WrappedCall("get_contacts_api_call", d, FALSE, 0)
               /\ OpLog("success", 0)
       ELSE IF may_retry(status, retries, fetch_max_retries)
       THEN /\ retries' = retries + 1
            /\ backoff_time' = backoff_time * 2
            /\ WrappedCall("get_contacts_api_call", d, TRUE, backoff_time)
            /\ OpLog("running", backoff_time)
            /\ UNCHANGED <<pc, contacts, locals_fetch>>
       ELSE /\ pc' = "filter_contacts"
            /\ contacts' = fetch_abort(acc)
            /\ WrappedCall("get_contacts_api_call", d, TRUE, 0)
            /\ OpLog(IF status \in TransientStatuses THEN "exhausted" ELSE "fatal", 0)
            /\ UNCHANGED <<locals_fetch, retry_state>>
    /\ UNCHANGED <<program, next_handler, label_id, skipped_contacts, to_delete_contacts,
                   index, files, listCalls, deleteCalls, deleteFailed>>

\* execute(): skipped_contacts, to_delete_contacts = filter_contacts(contacts)
execute_filter_contacts ==
    /\ pc = "filter_contacts"
    /\ IF filter_contacts_raises(contacts)
       THEN /\ pc' = "crashed"
            /\ UNCHANGED <<next_handler, skipped_contacts, to_delete_contacts>>
       ELSE LET r == filter_contacts(next_handler, contacts.items)
            IN /\ next_handler' = r.links
               /\ skipped_contacts' = r.skipped
               /\ to_delete_contacts' = r.to_delete
               /\ pc' = "save_to_files"
    /\ UNCHANGED <<program, label_id, locals_fetch, retry_state, contacts, index, files,
                   clocks, call_log, op_log>>

\* execute(): save_to_files(...), then the entry of delete_contacts
execute_save_to_files ==
    /\ pc = "save_to_files"
    /\ LET kept == save_skipped_rows(next_handler, skipped_contacts, << >>)
       IN /\ next_handler' = kept.links
          /\ IF kept.raised
             THEN /\ files' = [names |-> files.names \cup {"skipped_contacts.csv"},
                               skipped |-> kept.rows, to_delete |-> << >>]
                  /\ pc' = "crashed"
                  /\ UNCHANGED <<index, retry_state>>
             ELSE /\ files' = [names |-> files.names \cup {"skipped_contacts.csv",
                                                           "to_delete_contacts.csv"},
                               skipped |-> kept.rows,
                               to_delete |-> save_to_delete_rows(to_delete_contacts)]
                  /\ pc' = "delete_contacts"
                  /\ index' = 1
                  /\ retries' = 0
                  /\ backoff_time' = delete_initial_backoff
    /\ UNCHANGED <<program, label_id, locals_fetch, lists, clocks, call_log, op_log>>

\* delete_contacts: one pass of the inner while loop for contacts[index]
delete_contacts_call(status, d) ==
    /\ pc = "delete_contacts"
    /\ LET list == delete_argument(skipped_contacts, to_delete_contacts)
       IN /\ index <= Len(list)
          /\ deleteCalls' = Append(deleteCalls, current_contact(list, index).resourceName)
    /\ deleteFailed' = (deleteFailed \/ status # 200)
    /\ IF status = 200
       THEN /\ index' = index + 1
            /\ retries' = 0
            /\ backoff_time' = backoff_reset(backoff_time, delete_initial_backoff)
            /\ WrappedCall("delete_contact_api_call", d, FALSE, 0)
            /\ OpLog("success", 0)
       ELSE IF may_retry(status, retries, delete_max_retries)
       THEN /\ retries' = retries + 1
            /\ backoff_time' = backoff_time * 2
            /\ WrappedCall("delete_contact_api_call", d, TRUE, backoff_time)
            /\ OpLog("running", backoff_time)
            /\ UNCHANGED index
       ELSE /\ index' = next_after_break(index, delete_argument(skipped_contacts,
                                                                     to_delete_contacts))
            /\ retries' = 0
            /\ backoff_time' = backoff_reset(backoff_time, delete_initial_backoff)
            /\ WrappedCall("delete_contact_api_call", d, TRUE, 0)
            /\ OpLog(IF status \in TransientStatuses THEN "exhausted" ELSE "fatal", 0)
    /\ UNCHANGED <<program, pc, next_handler, label_id, locals_fetch, lists, files,
                   listCalls, fetchCalled>>

\* delete_contacts: the for loop is exhausted; main() prints "done"
delete_contacts_completed ==
    /\ pc = "delete_contacts"
    /\ index > Len(delete_argument(skipped_contacts, to_delete_contacts))
    /\ pc' = "done"
    /\ UNCHANGED <<program, next_handler, label_id, locals_fetch, retry_state, lists,
                   index, files, clocks, call_log, op_log>>

\* one tick passes between two steps of a run that uses the rate limiter
Tick ==
    /\ module = "google_api"
    /\ pc \in {"fetch_contacts", "delete_contacts"}
    /\ elapsed' = [f \in WrappedCalls |-> Cap(elapsed[f] + 1)]
    /\ sinceStart' = [f \in WrappedCalls |-> Adv(sinceStart[f], 1)]
    /\ <<elapsed', sinceStart'>> # <<elapsed, sinceStart>>
    /\ UNCHANGED <<program, pc, next_handler, label_id, locals_fetch, retry_state, lists,
                   index, files, startGap, call_log, op_log>>

Next ==
    \/ main_init
    \/ main_auth
    \/ \E status \in Statuses : execute_get_label_id(status)
    \/ \E status \in Statuses, d \in 0..MaxCallTicks : fetch_contacts_call(status, d)
    \/ execute_filter_contacts
    \/ execute_save_to_files
    \/ \E status \in Statuses, d \in 0..MaxCallTicks : delete_contacts_call(status, d)
    \/ delete_contacts_completed
    \/ Tick

Spec == Init /\ [][Next]_vars


(***************************************************************************)
(* Vocabulary of the claims                                                *)
(***************************************************************************)
Range(seq) == {seq[i] : i \in DOMAIN seq}
Ids(seq) == {seq[i].resourceName : i \in DOMAIN seq}
Occurrences(x, seq) == Cardinality({i \in DOMAIN seq : seq[i] = x})

HasTaggedPhone(c) == TRUE \in Range(c.phoneNumbers)
HasSeveralPhones(c) == Len(c.phoneNumbers) > 1
HasSeveralMemberships(c) == Len(c.memberships) > 1

\* filter_contacts has returned its two lists
Classified == pc \in {"save_to_files", "delete_contacts", "done"}
\* save_to_files has returned
Exported == pc \in {"delete_contacts", "done"}
\* fetch_contacts has returned a list
FetchCompleted == fetchCalled /\ pc # "fetch_contacts" /\ ~contacts.none

\* C1: every fetched record with a tagged phone number and more than one
\* membership is exported as kept with the reason "Phone number has a label".
C1_RulePrecedence ==
    Exported =>
        \A c \in Range(contacts.items) :
            (HasTaggedPhone(c) /\ HasSeveralMemberships(c))
                => <<c.resourceName, "Phone number has a label">> \in Range(files.skipped)

\* C2: a fetched record is put in the delete list if and only if none of the
\* three rules matches it (no tagged phone, at most one phone, at most one
\* membership).
C2_DeleteIffNoRuleMatches ==
    Classified =>
        \A c \in Range(contacts.items) :
            (c \in Range(to_delete_contacts))
                <=> ~(HasTaggedPhone(c) \/ HasSeveralPhones(c) \/ HasSeveralMemberships(c))

\* C3: once fetch_contacts has aborted (returned None), no delete call has
\* been issued and no export file exists, in every later state of the run.
C3_AbortedFetchDeletesNothing ==
    contacts.none => (deleteCalls = << >> /\ files.names = {})

\* C3 witness: the fetch aborted and execute() went on to its next step.
C3_Witness == contacts.none /\ pc = "crashed" /\ opOutcome \in {"exhausted", "fatal"}

\* C4: every delete call targets a fetched record that has the resolved label
\* among its memberships and is in the delete list, never one of the keep
\* list; a run without a failed delete call issues as many delete calls as
\* the delete list has records.
C4_DeleteCallsAreTheDeleteList ==
    /\ \A k \in DOMAIN deleteCalls :
          /\ \E c \in Range(contacts.items) :
                /\ c.resourceName = deleteCalls[k]
                /\ label_id \in Range(c.memberships)
          /\ \E p \in DOMAIN pages : deleteCalls[k] \in Ids(pages[p])
          /\ deleteCalls[k] \in Ids(to_delete_contacts)
          /\ deleteCalls[k] \notin Ids(skipped_contacts)
    /\ (pc = "done" /\ ~deleteFailed) => Len(deleteCalls) = Len(to_delete_contacts)

\* C4 witness: a finished run that kept a record and deleted two, no call failing.
C4_Witness ==
    /\ pc = "done"
    /\ ~deleteFailed
    /\ Len(deleteCalls) = 2
    /\ skipped_contacts # << >>

\* C5: a run started without a label makes no remote call at all.
C5_NoLabelNoRemoteCall ==
    label = None => (listCalls = 0 /\ ~fetchCalled /\ deleteCalls = << >>)

\* C6: when the given label resolves to no group, no page fetch is issued and
\* no export file is written.
C6_UnresolvedLabelStops ==
    (label # None /\ listCalls > 0 /\ label_id = None)
        => (~fetchCalled /\ files.names = {})

\* C7: after filter_contacts the keep list and the delete list partition the
\* fetched list: nothing in common, nothing omitted, lengths add up.
C7_Partition ==
    Classified =>
        /\ Len(skipped_contacts) + Len(to_delete_contacts) = Len(contacts.items)
        /\ Range(skipped_contacts) \cap Range(to_delete_contacts) = {}
        /\ \A c \in Range(contacts.items) :
              Occurrences(c, skipped_contacts) + Occurrences(c, to_delete_contacts)
                  = Occurrences(c, contacts.items)

\* C7 witness: filter_contacts returned with both lists non-empty.
C7_Witness ==
    /\ pc = "save_to_files"
    /\ skipped_contacts # << >>
    /\ to_delete_contacts # << >>

\* the waits of an operation that meets transient failures only
BackoffSchedule == [i \in 1..delete_max_retries |-> delete_initial_backoff * 2 ^ (i - 1)]

\* the observed operation runs with initial backoff 2 and max_retries 6
OperationHasDefaults == module = "google_api" \/ deleteCalls # << >>

\* C8: an operation with initial backoff 2 and max_retries 6 waits 2, 4, 8,
\* 16, 32, 64 between its calls, gives up for a transient status only on the
\* 7th failure, and never waits after its last call.
C8_BackoffSequence ==
    (OperationHasDefaults /\ opOutcome # "none") =>
        /\ Len(waits) <= Len(BackoffSchedule)
        /\ waits = SubSeq(BackoffSchedule, 1, Len(waits))
        /\ opOutcome = "exhausted" => (Len(waits) = delete_max_retries /\ opCalls = delete_max_retries + 1)
        /\ opOutcome \in {"success", "fatal"} => opCalls = Len(waits) + 1

\* C9: a call of a wrapped operation never starts less than 60/C seconds
\* after the previous call of the same operation began.
C9_MinimumSpacing ==
    \A f \in WrappedCalls :
        startGap[f] # << >> => startGap[f][1] >= min_interval

RECURSIVE PagesFrom(_)
\* the label-matching records of pages p, p+1, ... in page order
PagesFrom(p) ==
    IF p > Len(pages) THEN << >>
    ELSE SelectSeq(pages[p], LAMBDA c : label_id \in Range(c.memberships))
            \o PagesFrom(p + 1)

\* C10: the list fetch_contacts returns is the concatenation, in page order,
\* of every page's label-matching records, whatever failures were retried.
C10_FetchIsConcatenation ==
    FetchCompleted => contacts.items = PagesFrom(1)

\* C10 witness: a two-page fetch that retried, dropped a record and returned
\* records of both pages.
C10_Witness ==
    /\ pc = "filter_contacts"
    /\ ~contacts.none
    /\ retries > 0
    /\ Len(pages) >= 2
    /\ \E a, b \in Range(contacts.items) : a.resourceName < 20 /\ b.resourceName > 20
    /\ Len(contacts.items) < Len(pages[1]) + Len(pages[2])

Last(seq) == seq[Len(seq)]

\* C11: a permanent failure of one record's delete never aborts the batch:
\* the run stays in delete_contacts, the loop moves to the next record, and
\* at completion every record of the delete list has had a delete call.
C11_FailureDoesNotAbortBatch ==
    /\ deleteCalls # << >> => pc \in {"delete_contacts", "done"}
    /\ pc = "delete_contacts" =>
          \A j \in 1..Len(to_delete_contacts) :
              j < index => to_delete_contacts[j].resourceName \in Range(deleteCalls)
    /\ pc = "done" => Ids(to_delete_contacts) \subseteq Range(deleteCalls)
    /\ (pc = "delete_contacts" /\ deleteCalls # << >>
            /\ opOutcome \in {"fatal", "exhausted"}) =>
          /\ index - 1 \in DOMAIN to_delete_contacts
          /\ Last(deleteCalls) = to_delete_contacts[index - 1].resourceName

\* C11 witness: the only call for the first of two records failed, the
\* second record was then called, succeeded, and the batch completed.
C11_Witness ==
    /\ pc = "done"
    /\ deleteFailed
    /\ opOutcome = "success"
    /\ Len(to_delete_contacts) = 2
    /\ deleteCalls = <<to_delete_contacts[1].resourceName,
                       to_delete_contacts[2].resourceName>>

\* C12: a fetch that ends in a permanent failure returns None, never the
\* records accumulated so far.
C12_AbortReturnsNone ==
    (fetchCalled /\ pc \in {"filter_contacts", "save_to_files", "crashed"}
        /\ opOutcome \in {"fatal", "exhausted"})
            => (contacts.none /\ contacts.items = << >>)

\* C12 witness: the fetch was abandoned on a later page, with records of an
\* earlier page already accumulated.
C12_Witness ==
    /\ pc = "filter_contacts"
    /\ contacts.none
    /\ acc # << >>
    /\ page_token > 0

\* every record the server holds
AllRecords == UNION {Range(pages[p]) : p \in DOMAIN pages}

\* the links of the handler objects when filters.py has just been imported
FreshLinks == [h \in Handlers |-> None]

\* C13: what record_filters().handle(R) returns depends on R alone: not on
\* the links earlier invocations left behind, nor on which record was
\* classified before; so the export finds a reason for every kept record.
\* (The handler links are written by filter_contacts and save_to_files only:
\* the comparison is made in the states up to the first delete call, and the
\* links are one of two values throughout.)
C13_ClassificationIsPure ==
    /\ next_handler \in {FreshLinks, record_filters(FreshLinks).links}
    /\ deleteCalls = << >> =>
          \A c \in AllRecords :
              /\ classify(next_handler, c).result = classify(FreshLinks, c).result
              /\ \A other \in AllRecords :
                    classify(classify(next_handler, other).links, c).result
                        = classify(FreshLinks, c).result
    /\ files.names # {} => pc # "crashed"
    /\ Exported =>
          /\ Len(files.skipped) = Len(skipped_contacts)
          /\ \A i \in DOMAIN files.skipped :
                /\ files.skipped[i][1] = skipped_contacts[i].resourceName
                /\ files.skipped[i][2] = classify(FreshLinks, skipped_contacts[i]).result[2]

\* C13 witness: two kept records were classified again by the export, on
\* handler objects already linked by filter_contacts.
C13_Witness ==
    /\ Exported
    /\ Len(files.skipped) = 2
    /\ next_handler # FreshLinks

\* C14: the retry counter belongs to one logical operation: in google_api.py
\* every page fetch and every record delete starts with a count of 0, counts its own retries
\* only, and gives up for a transient status only after max_retries retries.
C14_RetryCounterPerOperation ==
    module = "google_api" =>
    /\ (pc \in {"fetch_contacts", "delete_contacts"} /\ opOutcome # "running")
          => retries = 0
    /\ (pc \in {"fetch_contacts", "delete_contacts"} /\ opOutcome = "running")
          => retries = Len(waits)
    /\ (fetchCalled /\ deleteCalls = << >> /\ opOutcome = "exhausted")
          => opCalls = fetch_max_retries + 1
    /\ (deleteCalls # << >> /\ opOutcome = "exhausted")
          => opCalls = delete_max_retries + 1

\* C15: the limiter's timestamp is renewed by every completed call, failed
\* or not: the time since last_time_called never exceeds the time since the
\* latest call of that operation began.
C15_FailedCallConsumesSchedule ==
    \A f \in WrappedCalls :
        sinceStart[f] # << >> => elapsed[f] <= sinceStart[f][1]

\* C16: every logical operation starts from the initial backoff: between two
\* operations backoff_time is the initial value, and the first wait of each
\* page fetch and of each record delete equals it, whatever came before.
C16_BackoffNotCumulative ==
    /\ (pc = "fetch_contacts" /\ opOutcome # "running")
          => backoff_time = fetch_initial_backoff
    /\ (pc = "delete_contacts" /\ (deleteCalls = << >> \/ opOutcome # "running"))
          => backoff_time = delete_initial_backoff
    /\ (pc = "fetch_contacts" /\ opOutcome = "running")
          => (waits # << >> /\ waits[1] = fetch_initial_backoff)
    /\ (pc = "delete_contacts" /\ deleteCalls # << >> /\ opOutcome = "running")
          => (waits # << >> /\ waits[1] = delete_initial_backoff)

\* C16 witness: the first record needed a retry, and the second record's
\* first wait is again the initial backoff.
C16_Witness ==
    /\ pc = "delete_contacts"
    /\ index = 2
    /\ opOutcome = "running"
    /\ waits = <<delete_initial_backoff>>
    /\ Len(deleteCalls) >= 3
    /\ deleteCalls[1] = deleteCalls[2]

\* the run has ended: main() printed "done" or an exception ended it
Terminated == pc \in {"done", "crashed"}

\* the retry limit of the operation the observers describe
CurrentMaxRetries ==
    IF deleteCalls = << >> THEN fetch_max_retries ELSE delete_max_retries

RECURSIVE RecordsFrom(_)
\* number of records the server holds on pages p, p+1, ...
RecordsFrom(p) == IF p > Len(pages) THEN 0 ELSE Len(pages[p]) + RecordsFrom(p + 1)

\* upper bounds of the number of steps, ticks aside, a run still takes from
\* the entry of delete_contacts, of filter_contacts and from where it is
DeleteStepsLeft(records, tried) == records * (delete_max_retries + 1) - tried + 1
FilterStepsLeft == 2 + DeleteStepsLeft(RecordsFrom(1), 0)
StepsLeft ==
    CASE pc = "init" -> 3 + Len(pages) * (fetch_max_retries + 1) + FilterStepsLeft
      [] pc = "auth" -> 2 + Len(pages) * (fetch_max_retries + 1) + FilterStepsLeft
      [] pc = "get_label_id" -> 1 + Len(pages) * (fetch_max_retries + 1) + FilterStepsLeft
      [] pc = "fetch_contacts" ->
            (Len(pages) - (IF page_token = 0 THEN 1 ELSE page_token) + 1)
                * (fetch_max_retries + 1) - retries + FilterStepsLeft
      [] pc = "filter_contacts" -> FilterStepsLeft
      [] pc = "save_to_files" -> 1 + DeleteStepsLeft(Len(to_delete_contacts), 0)
      [] pc = "delete_contacts" ->
            DeleteStepsLeft(Len(to_delete_contacts) - index + 1, retries)
      [] OTHER -> 0

\* ticks that can still pass before every clock has reached its cap
ClockSlack ==
    LET slack(f) == (min_interval - elapsed[f])
                    + (IF sinceStart[f] = << >> THEN 0
                       ELSE min_interval - sinceStart[f][1])
    IN slack("get_contacts_api_call") + slack("delete_contact_api_call")

\* a natural number that every step of the run must lower
Variant == StepsLeft * (4 * min_interval + 1) + ClockSlack

\* the guards of the steps: some step of the run can be taken (this is
\* ENABLED Next, written out so that it is cheap to evaluate)
CanStep ==
    \/ pc \in {"init", "auth", "get_label_id", "fetch_contacts", "filter_contacts",
               "save_to_files"}
    \/ pc = "delete_contacts" /\ index \in 1..(Len(to_delete_contacts) + 1)

\* C17: no logical operation issues more than max_retries + 1 calls, and
\* every run comes to an end: each step lowers a natural-number variant, and
\* a run that has not ended can always take a step, so fetch_contacts
\* returns and delete_contacts completes whatever the server answers.
C17_EveryRetryLoopIsCapped ==
    /\ [](opCalls <= CurrentMaxRetries + 1 /\ retries <= CurrentMaxRetries)
    /\ [](Variant >= 0 /\ (Terminated \/ CanStep))
    /\ [][Variant' < Variant]_vars

\* C17 witness: a run that used every retry of a record's delete and still
\* completed.
C17_Witness ==
    /\ pc = "done"
    /\ opOutcome = "exhausted"
    /\ opCalls = delete_max_retries + 1

RECURSIVE Collapse(_)
\* seq with every run of equal neighbours reduced to one element
Collapse(seq) ==
    IF Len(seq) <= 1 THEN seq
    ELSE IF seq[1] = seq[2] THEN Collapse(Tail(seq))
    ELSE <<seq[1]>> \o Collapse(Tail(seq))

\* C18: the delete list keeps the order in which its records were fetched,
\* and the delete calls walk it in that order, all calls for one record
\* before the first call for the next.
C18_DeletesInInputOrder ==
    /\ Classified =>
          to_delete_contacts
              = SelectSeq(contacts.items, LAMBDA c : c \in Range(to_delete_contacts))
    /\ LET firsts == Collapse(deleteCalls)
       IN /\ Len(firsts) <= Len(to_delete_contacts)
          /\ \A i \in DOMAIN firsts : firsts[i] = to_delete_contacts[i].resourceName

\* C18 witness: two records from two pages were deleted, with retries, and
\* the batch completed.
C18_Witness ==
    /\ pc = "done"
    /\ Len(to_delete_contacts) = 2
    /\ Len(deleteCalls) >= 4
    /\ to_delete_contacts[1].resourceName < to_delete_contacts[2].resourceName
    /\ deleteCalls[1] = deleteCalls[2]
    /\ deleteCalls[Len(deleteCalls)] = deleteCalls[Len(deleteCalls) - 1]

\* C19: a delete call for a record that already had one is a retry of the
\* operation still running: once a record's delete has succeeded or failed
\* permanently, no later call targets it.
C19_TerminalIsFinal ==
    [][ deleteCalls' # deleteCalls =>
          LET id == Last(deleteCalls')
          IN id \in Range(deleteCalls) =>
                (id = Last(deleteCalls) /\ opOutcome = "running") ]_vars

\* C19 witness: the first record was retried and then ended, the second
\* failed permanently on its first call, and the batch completed.
C19_Witness ==
    /\ pc = "done"
    /\ opOutcome = "fatal"
    /\ Len(to_delete_contacts) = 2
    /\ Len(deleteCalls) = 3
    /\ deleteCalls[1] = deleteCalls[2]
    /\ deleteCalls[3] # deleteCalls[2]

\* C20: when execute() goes on with an absent label id, the membership
\* filter retains nothing: the accumulator, the fetched list, the keep list
\* and the delete list stay empty and no delete call is issued.
C20_AbsentLabelIdKeepsNothing ==
    (listCalls > 0 /\ label_id = None) =>
        /\ acc = << >>
        /\ contacts.items = << >>
        /\ skipped_contacts = << >>
        /\ to_delete_contacts = << >>
        /\ deleteCalls = << >>

\* C20 witness: a run with an unresolved label fetched pages that hold
\* records and went through to completion.
C20_Witness ==
    /\ pc = "done"
    /\ label = "Nope"
    /\ label_id = None
    /\ fetchCalled
    /\ Len(pages) = 2
    /\ RecordsFrom(1) > 1

====
